---- MODULE Spec2Model ----
(***************************************************************************)
(* A model of the Obsidian -> Hugo export plugin (src/main.ts).            *)
(*                                                                         *)
(* Text is a sequence of characters (one-character strings).  Three        *)
(* multi-character atoms stand for fixed literals of the source that are   *)
(* only ever produced and searched for as a whole: the masking prefix      *)
(* PFX and the two kind markers "_FENCED_" and "_INLINE_".  The backtick   *)
(* character is written BT.                                                *)
(***************************************************************************)
EXTENDS Naturals, Integers, Sequences, FiniteSets, TLC

(***************************************************************************)
(* Bounds of the model.                                                    *)
(***************************************************************************)
MaxFrags == 2
MaxNotes == 3

(***************************************************************************)
(* Generic text helpers (String.prototype methods used by the source).     *)
(***************************************************************************)
NL == "\n"
SP == " "
BT == "BACKTICK"
TL == "~"

Min(a, b) == IF a < b THEN a ELSE b

\* text.substring(from-1, to-1) in 1-based, end-exclusive form.
Sub(t, from, to) == IF to <= from THEN << >> ELSE SubSeq(t, from, to - 1)

RECURSIVE Cat(_)
Cat(ss) == IF ss = << >> THEN << >> ELSE Head(ss) \o Cat(Tail(ss))

\* t.startsWith(p, at-1)
StartsAt(t, p, at) ==
    /\ at >= 1
    /\ at + Len(p) - 1 <= Len(t)
    /\ \A k \in 1..Len(p) : t[at + k - 1] = p[k]

StartsWith(t, p) == StartsAt(t, p, 1)

\* t.indexOf(p) as a 1-based index, 0 when absent.
IndexOf(t, p) ==
    LET hits == {i \in 1..(Len(t) + 1) : StartsAt(t, p, i)}
    IN  IF hits = {} THEN 0 ELSE CHOOSE i \in hits : \A j \in hits : i <= j

\* t.lastIndexOf(p) as a 1-based index, 0 when absent.
LastIndexOf(t, p) ==
    LET hits == {i \in 1..(Len(t) + 1) : StartsAt(t, p, i)}
    IN  IF hits = {} THEN 0 ELSE CHOOSE i \in hits : \A j \in hits : i >= j

Includes(t, p) == IndexOf(t, p) # 0

\* Length of the maximal run of characters in set cs starting at index i.
RECURSIVE RunLen(_, _, _)
RunLen(t, i, cs) ==
    IF i <= Len(t) /\ t[i] \in cs THEN 1 + RunLen(t, i + 1, cs) ELSE 0

\* Length of the maximal run of characters NOT in set cs starting at index i.
RECURSIVE RunLenNot(_, _, _)
RunLenNot(t, i, cs) ==
    IF i <= Len(t) /\ t[i] \notin cs THEN 1 + RunLenNot(t, i + 1, cs) ELSE 0

\* String.prototype.trim over the whitespace of the alphabet.
WS == {SP, NL}

RECURSIVE TrimLeft(_)
TrimLeft(t) == IF t # << >> /\ Head(t) \in WS THEN TrimLeft(Tail(t)) ELSE t

RECURSIVE TrimRight(_)
TrimRight(t) ==
    IF t # << >> /\ t[Len(t)] \in WS THEN TrimRight(Sub(t, 1, Len(t))) ELSE t

Trim(t) == TrimRight(TrimLeft(t))

Digit == <<"0", "1", "2", "3", "4", "5", "6", "7", "8", "9">>

\* Decimal rendering of a number inside a template literal.
RECURSIVE Digits(_)
Digits(n) == IF n < 10 THEN <<Digit[n + 1]>>
             ELSE Digits(n \div 10) \o <<Digit[(n % 10) + 1]>>


(***************************************************************************)
(* Code masking (processContent, steps 1 and 2).                           *)
(***************************************************************************)
PFX == "%%HUGOPLUGIN_CODEBLOCK%%"
FENCED == "_FENCED_"
INLINE == "_INLINE_"

\* `${placeholderPrefix}_FENCED_${n}%%` and `${placeholderPrefix}_INLINE_${n}%%`
Placeholder(kind, n) == <<PFX, kind>> \o Digits(n) \o <<"%", "%">>

\* ^ under the m flag: start of input or just after a line terminator.
AtLineStart(t, i) == i = 1 \/ (i > 1 /\ i <= Len(t) + 1 /\ t[i - 1] = NL)

\* $ under the m flag: end of input or just before a line terminator.
AtLineEnd(t, i) == i = Len(t) + 1 \/ (i <= Len(t) /\ t[i] = NL)

\* Shortest fence each alternative of (````+|~~~+) accepts.
MinFence(c) == IF c = BT THEN 4 ELSE 3

\* " {0,3}\1 *$" at index i, \1 being L copies of c: the index just past
\* the match, 0 when there is none.
CloseFenceAt(t, i, c, L) ==
    LET sp == RunLen(t, i, {SP})
        f  == i + sp
        e  == f + L + RunLen(t, f + L, {SP})
    IN  IF sp <= 3 /\ RunLen(t, f, {c}) >= L /\ AtLineEnd(t, e) THEN e ELSE 0

\* "([\s\S]*?)\n^ {0,3}\1 *$" from index i: the lazy body stops at the first
\* newline that a closing fence line follows.
RECURSIVE FindClose(_, _, _, _)
FindClose(t, i, c, L) ==
    IF i > Len(t) THEN 0
    ELSE IF t[i] = NL /\ CloseFenceAt(t, i + 1, c, L) # 0
         THEN CloseFenceAt(t, i + 1, c, L)
         ELSE FindClose(t, i + 1, c, L)

\* The fence group is greedy and backtracks: the longest \1 for which the
\* rest of the pattern matches wins.
RECURSIVE FenceTry(_, _, _, _)
FenceTry(t, f, c, L) ==
    IF L < MinFence(c) THEN 0
    ELSE LET nl == f + L + RunLenNot(t, f + L, {NL})
             e  == IF nl > Len(t) THEN 0 ELSE FindClose(t, nl + 1, c, L)
         IN  IF e # 0 THEN e ELSE FenceTry(t, f, c, L - 1)

\* fencedCodeRegex anchored at index i: the index just past the match, 0
\* when there is none.
MatchFencedAt(t, i) ==
    IF ~AtLineStart(t, i) THEN 0
    ELSE LET f == i + Min(RunLen(t, i, {SP}), 3)
         IN  IF f > Len(t) \/ t[f] \notin {BT, TL} THEN 0
             ELSE FenceTry(t, f, t[f], RunLen(t, f, {t[f]}))

\* STEP 1: replace(fencedCodeRegex, ...) scanning from index i.
RECURSIVE MaskFencedFrom(_, _, _, _)
MaskFencedFrom(t, i, out, blocks) ==
    IF i > Len(t) THEN [text |-> out, blocks |-> blocks]
    ELSE LET e == MatchFencedAt(t, i)
         IN  IF e # 0
             THEN MaskFencedFrom(t, e, out \o Placeholder(FENCED, Len(blocks)),
                                 Append(blocks, Sub(t, i, e)))
             ELSE MaskFencedFrom(t, i + 1, Append(out, t[i]), blocks)

MaskFenced(t) == MaskFencedFrom(t, 1, << >>, << >>)

\* inlineCodeRegex anchored at index i: the index just past the match, 0
\* when there is none.
MatchInlineAt(t, i) ==
    IF i > Len(t) \/ t[i] # BT THEN 0
    ELSE LET n == RunLenNot(t, i + 1, {BT, NL})
             e == i + 1 + n
         IN  IF n >= 1 /\ e <= Len(t) /\ t[e] = BT THEN e + 1 ELSE 0

\* STEP 2: replace(inlineCodeRegex, ...) scanning from index i; a match that
\* includes the placeholder prefix is returned as it is.
RECURSIVE MaskInlineFrom(_, _, _, _)
MaskInlineFrom(t, i, out, blocks) ==
    IF i > Len(t) THEN [text |-> out, blocks |-> blocks]
    ELSE LET e == MatchInlineAt(t, i)
             m == Sub(t, i, e)
         IN  IF e = 0
             THEN MaskInlineFrom(t, i + 1, Append(out, t[i]), blocks)
             ELSE IF Includes(m, <<PFX>>)
             THEN MaskInlineFrom(t, e, out \o m, blocks)
             ELSE MaskInlineFrom(t, e, out \o Placeholder(INLINE, Len(blocks)),
                                 Append(blocks, m))

MaskInline(t) == MaskInlineFrom(t, 1, << >>, << >>)

(***************************************************************************)
(* Character classes and the literal fragments of the output templates.    *)
(***************************************************************************)
DQ == "QUOTE"
BSLASH == "BACKSLASH"
LowerLetters ==
    {"a", "b", "c", "d", "e", "f", "g", "h", "i", "j", "k", "l", "m", "n",
    "o", "p", "q", "r", "s", "t", "u", "v", "w", "x", "y", "z"}
UpperLetters ==
    {"A", "B", "C", "D", "E", "F", "G", "H", "I", "J", "K", "L", "M", "N",
    "O", "P", "Q", "R", "S", "T", "U", "V", "W", "X", "Y", "Z"}
DigitChars == {Digit[k] : k \in 1..10}

ERRW == "<!-- ERROR PROCESSING WIKI IMAGE: "
ERRM == "<!-- ERROR PROCESSING MARKDOWN IMAGE: "
ENDC == " -->"
IMAGES == "/images/"
POSTS == "/posts/"
HTTP == "http:"
HTTPS == "https://"

\* The characters an atom stands for.
Expand(c) ==
    CASE c = PFX -> 
        <<"%", "%", "H", "U", "G", "O", "P", "L", "U", "G", "I", "N", "_", "C",
          "O", "D", "E", "B", "L", "O", "C", "K", "%", "%">>
      [] c = FENCED ->
        <<"_", "F", "E", "N", "C", "E", "D", "_">>
      [] c = INLINE ->
        <<"_", "I", "N", "L", "I", "N", "E", "_">>
      [] c = ERRW ->
        <<"<", "!", "-", "-", SP, "E", "R", "R", "O", "R", SP, "P", "R", "O",
          "C", "E", "S", "S", "I", "N", "G", SP, "W", "I", "K", "I", SP, "I",
          "M", "A", "G", "E", ":", SP>>
      [] c = ERRM ->
        <<"<", "!", "-", "-", SP, "E", "R", "R", "O", "R", SP, "P", "R", "O",
          "C", "E", "S", "S", "I", "N", "G", SP, "M", "A", "R", "K", "D", "O",
          "W", "N", SP, "I", "M", "A", "G", "E", ":", SP>>
      [] c = ENDC ->
        <<SP, "-", "-", ">">>
      [] c = IMAGES ->
        <<"/", "i", "m", "a", "g", "e", "s", "/">>
      [] c = POSTS ->
        <<"/", "p", "o", "s", "t", "s", "/">>
      [] c = HTTP ->
        <<"h", "t", "t", "p", ":">>
      [] c = HTTPS ->
        <<"h", "t", "t", "p", "s", ":", "/", "/">>
      [] OTHER -> <<c>>

RECURSIVE ExpandAll(_)
ExpandAll(t) == IF t = << >> THEN << >> ELSE Expand(Head(t)) \o ExpandAll(Tail(t))

\* \w
IsWord(c) == c \in LowerLetters \cup UpperLetters \cup DigitChars \cup {"_"}

\* \s
IsSpace(c) == c \in WS

LowerTable ==
    ("A" :> "a") @@ ("B" :> "b") @@ ("C" :> "c") @@ ("D" :> "d") @@ ("E"
    :> "e") @@ ("F" :> "f") @@ ("G" :> "g") @@ ("H" :> "h") @@ ("I" :>
    "i") @@ ("J" :> "j") @@ ("K" :> "k") @@ ("L" :> "l") @@ ("M" :> "m")
    @@ ("N" :> "n") @@ ("O" :> "o") @@ ("P" :> "p") @@ ("Q" :> "q") @@
    ("R" :> "r") @@ ("S" :> "s") @@ ("T" :> "t") @@ ("U" :> "u") @@ ("V"
    :> "v") @@ ("W" :> "w") @@ ("X" :> "x") @@ ("Y" :> "y") @@ ("Z" :>
    "z")

\* toLowerCase on one character.
Lower(c) == IF c \in UpperLetters THEN LowerTable[c] ELSE c

(***************************************************************************)
(* Naming utilities: slugify, sanitizeFilename, and the node helpers       *)
(* path.basename, path.parse(...).name and encodeURIComponent.             *)
(***************************************************************************)
EACUTE == "é"
ACUTE == "U+0301"

\* normalize('NFKD') on one character: the only decomposable character of
\* the alphabet is e-acute.
Decompose(c) == IF c = EACUTE THEN <<"e", ACUTE>> ELSE <<c>>

RECURSIVE FlatMap(_, _)
FlatMap(F(_), t) == IF t = << >> THEN << >> ELSE F(Head(t)) \o FlatMap(F, Tail(t))

RECURSIVE Filter(_, _)
Filter(P(_), t) ==
    IF t = << >> THEN << >>
    ELSE IF P(Head(t)) THEN <<Head(t)>> \o Filter(P, Tail(t))
         ELSE Filter(P, Tail(t))

\* replace(/[cs]+/g, by): every maximal run of characters of cs becomes by.
RECURSIVE CollapseRuns(_, _, _)
CollapseRuns(t, cs, by) ==
    IF t = << >> THEN << >>
    ELSE IF Head(t) \in cs
         THEN by \o CollapseRuns(Sub(t, 1 + RunLen(t, 1, cs), Len(t) + 1), cs, by)
         ELSE <<Head(t)>> \o CollapseRuns(Tail(t), cs, by)

\* replace(/-{2,}/g, '-')
CollapseHyphens(t) == CollapseRuns(t, {"-"}, <<"-">>)

\* replace(/^-+|-+$/g, '')
RECURSIVE StripHyphensLeft(_)
StripHyphensLeft(t) ==
    IF t # << >> /\ Head(t) = "-" THEN StripHyphensLeft(Tail(t)) ELSE t

RECURSIVE StripHyphensRight(_)
StripHyphensRight(t) ==
    IF t # << >> /\ t[Len(t)] = "-" THEN StripHyphensRight(Sub(t, 1, Len(t))) ELSE t

StripHyphens(t) == StripHyphensRight(StripHyphensLeft(t))

SlugKeep(c) == IsWord(c) \/ IsSpace(c) \/ c = "-"
NotDiacritic(c) == c # ACUTE
LowerSeq(c) == <<Lower(c)>>

slugify(text) ==
    LET nfkd    == FlatMap(Decompose, ExpandAll(text))
        plain   == Filter(NotDiacritic, nfkd)
        lowered == Trim(FlatMap(LowerSeq, plain))
        kept    == Filter(SlugKeep, lowered)
        hyphens == CollapseRuns(kept, {SP, NL, "_", "-"}, <<"-">>)
    IN  StripHyphens(hyphens)

Forbidden == {"<", ">", ":", DQ, "/", BSLASH, "|", "?", "*"}
NotForbidden(c) == c \notin Forbidden

UNTITLED == <<"u", "n", "t", "i", "t", "l", "e", "d">>

sanitizeFilename(filename) ==
    LET spaced    == CollapseRuns(ExpandAll(filename), WS, <<"-">>)
        stripped  == Filter(NotForbidden, spaced)
        sanitized == StripHyphens(CollapseHyphens(stripped))
    IN  IF sanitized = << >> THEN UNTITLED ELSE sanitized

\* path.basename (posix): the part after the last separator, trailing
\* separators ignored.
RECURSIVE StripTrailingSlashes(_)
StripTrailingSlashes(t) ==
    IF t # << >> /\ t[Len(t)] = "/" THEN StripTrailingSlashes(Sub(t, 1, Len(t))) ELSE t

PathBasename(p) ==
    LET q == StripTrailingSlashes(ExpandAll(p))
    IN  Sub(q, LastIndexOf(q, <<"/">>) + 1, Len(q) + 1)

\* path.parse(p).name: the basename without its extension; a leading dot
\* starts no extension.
PathParseName(p) ==
    LET b == PathBasename(p)
        d == LastIndexOf(b, <<".">>)
    IN  IF d <= 1 THEN b ELSE Sub(b, 1, d)

Unreserved == LowerLetters \cup UpperLetters \cup DigitChars
                \cup {"-", "_", ".", "!", "~", "*", "'", "(", ")"}

\* encodeURIComponent on one character.
EncodeChar(c) ==
    CASE c \in Unreserved -> <<c>>
      [] c = "[" -> <<"%", "5", "B">>
      [] c = "]" -> <<"%", "5", "D">>
      [] c = "%" -> <<"%", "2", "5">>
      [] c = "#" -> <<"%", "2", "3">>
      [] c = BT  -> <<"%", "6", "0">>
      [] c = SP  -> <<"%", "2", "0">>
      [] c = EACUTE -> <<"%", "C", "3", "%", "A", "9">>
      [] OTHER -> <<"%", c>>

encodeURIComponent(t) == FlatMap(EncodeChar, t)

(***************************************************************************)
(* Paths (node's posix path.join / path.dirname) and the vault.            *)
(***************************************************************************)
\* t.split('/')
RECURSIVE SplitSlash(_)
SplitSlash(t) ==
    LET n == RunLenNot(t, 1, {"/"})
    IN  IF n = Len(t) THEN <<t>>
        ELSE <<Sub(t, 1, n + 1)>> \o SplitSlash(Sub(t, n + 2, Len(t) + 1))

\* segs.join('/')
RECURSIVE JoinSlash(_)
JoinSlash(segs) ==
    IF segs = << >> THEN << >>
    ELSE IF Len(segs) = 1 THEN Head(segs)
         ELSE Head(segs) \o <<"/">> \o JoinSlash(Tail(segs))

DOT == <<".">>
DOTDOT == <<".", ".">>

\* path.normalize on the segments of a path: empty and "." segments go,
\* ".." removes the segment before it (at the root of an absolute path it
\* is dropped, at the start of a relative path it stays).
RECURSIVE NormSegs(_, _, _)
NormSegs(segs, acc, abs) ==
    IF segs = << >> THEN acc
    ELSE LET h == Head(segs)
         IN  IF h = << >> \/ h = DOT THEN NormSegs(Tail(segs), acc, abs)
             ELSE IF h = DOTDOT
                  THEN IF acc # << >> /\ acc[Len(acc)] # DOTDOT
                       THEN NormSegs(Tail(segs), Sub(acc, 1, Len(acc)), abs)
                       ELSE IF abs THEN NormSegs(Tail(segs), acc, abs)
                            ELSE NormSegs(Tail(segs), Append(acc, h), abs)
                  ELSE NormSegs(Tail(segs), Append(acc, h), abs)

NonEmpty(t) == t # << >>

\* path.join(...parts)
PathJoin(parts) ==
    LET joined == JoinSlash(Filter(NonEmpty, parts))
        abs    == joined # << >> /\ Head(joined) = "/"
        trail  == joined # << >> /\ joined[Len(joined)] = "/"
        body   == JoinSlash(NormSegs(SplitSlash(joined), << >>, abs))
        tail   == IF trail /\ body # << >> THEN <<"/">> ELSE << >>
    IN  IF joined = << >> THEN DOT
        ELSE IF abs THEN <<"/">> \o body \o tail
        ELSE IF body = << >> THEN (IF trail THEN <<".", "/">> ELSE DOT)
        ELSE body \o tail

\* path.dirname of a vault-relative note path.
PathDirname(p) ==
    LET q == StripTrailingSlashes(p)
        k == LastIndexOf(q, <<"/">>)
    IN  IF k = 0 THEN DOT
        ELSE IF k = 1 THEN <<"/">>
        ELSE StripTrailingSlashes(Sub(q, 1, k))

\* (this.app.vault.adapter as any).basePath
vaultBasePath == <<"/", "v">>

ATTACHMENTS == <<"A", "t", "t", "a", "c", "h", "m", "e", "n", "t", "s">>
ASSETS == <<"a", "s", "s", "e", "t", "s">>
IMAGESDIR == <<"i", "m", "a", "g", "e", "s">>

\* [...new Set(xs)]: first occurrences, in order.
RECURSIVE Dedupe(_, _)
Dedupe(xs, seen) ==
    IF xs = << >> THEN << >>
    ELSE IF Head(xs) \in seen THEN Dedupe(Tail(xs), seen)
         ELSE <<Head(xs)>> \o Dedupe(Tail(xs), seen \cup {Head(xs)})

\* The TFile fields the source reads: path, name, basename, extension.
NoteName(note) == PathBasename(note.path)
NoteBasename(note) == PathParseName(note.path)

\* A variant of the search bases with the vault root first.
searchBasesRootFirst(note) ==
    LET noteDir == PathDirname(note.path)
    IN  << << >>,
           PathJoin(<<noteDir, NoteBasename(note)>>),
           noteDir,
           ATTACHMENTS,
           ASSETS,
           IMAGESDIR >>

searchBases(note) ==
    LET noteDir == PathDirname(note.path)
    IN  << PathJoin(<<noteDir, NoteBasename(note)>>),
           noteDir,
           << >>,
           ATTACHMENTS,
           ASSETS,
           IMAGESDIR >>

RootIfDot(p) == IF p = DOT THEN << >> ELSE p

uniqueSearchBases(note) ==
    LET u == Dedupe(searchBases(note), {})
    IN  [k \in 1..Len(u) |-> RootIfDot(u[k])]

\* The paths findImage probes with fs.access(..., R_OK), in probing order.
ProbeOrder(note, ref) ==
    LET noteDir  == PathDirname(note.path)
        bases    == uniqueSearchBases(note)
        rooted   == IF StartsWith(ref, <<"/">>)
                    THEN <<PathJoin(<<vaultBasePath, Sub(ref, 2, Len(ref) + 1)>>)>>
                    ELSE << >>
        based    == [k \in 1..Len(bases) |-> PathJoin(<<vaultBasePath, bases[k], ref>>)]
        fallback == IF Includes(ref, <<"/">>) \/ Includes(ref, <<BSLASH>>)
                    THEN << PathJoin(<<vaultBasePath, noteDir, ref>>),
                            PathJoin(<<vaultBasePath, ref>>) >>
                    ELSE << >>
    IN  rooted \o based \o fallback

NotFound == [ok |-> FALSE, path |-> << >>]

\* Each probe returns on the first readable path; exhausting them throws.
RECURSIVE FirstReadable(_, _)
FirstReadable(paths, readable) ==
    IF paths = << >> THEN NotFound
    ELSE IF Head(paths) \in readable THEN [ok |-> TRUE, path |-> Head(paths)]
         ELSE FirstReadable(Tail(paths), readable)

findImage(note, ref, readable) == FirstReadable(ProbeOrder(note, ref), readable)

(***************************************************************************)
(* Reference extraction (processContent, step 3): the two image regexes    *)
(* run with matchAll over the masked text.                                 *)
(***************************************************************************)
\* wikiImageRegex anchored at index i: the index just past the match, 0
\* when there is none.
MatchWikiImageAt(t, i) ==
    IF ~StartsAt(t, <<"!", "[", "[">>, i) THEN 0
    ELSE LET n == RunLenNot(t, i + 3, {"]", NL})
             e == i + 3 + n
         IN  IF n >= 1 /\ StartsAt(t, <<"]", "]">>, e) THEN e + 2 ELSE 0

\* The optional title group (?:\s+"[^"]+")? followed by \) at index p: the
\* index just past the closing parenthesis, 0 when there is none.
MdImageTailAt(t, p) ==
    LET ws == RunLen(t, p, WS)
        q  == p + ws
        n  == RunLenNot(t, q + 1, {DQ})
        e  == q + 1 + n
    IN  IF p <= Len(t) /\ t[p] = ")" THEN p + 1
        ELSE IF ws >= 1 /\ q <= Len(t) /\ t[q] = DQ /\ n >= 1
                /\ StartsAt(t, <<DQ, ")">>, e)
             THEN e + 2
             ELSE 0

\* markdownImageRegex anchored at index i: [end |-> index just past the
\* match (0 when none), alt, path |-> the two capture groups].
MatchMdImageAt(t, i) ==
    LET a    == IF StartsAt(t, <<"!", "[">>, i) THEN RunLenNot(t, i + 2, {"]"}) ELSE 0
        b    == i + 2 + a
        n    == RunLenNot(t, b + 2, {")", SP, NL})
        p    == b + 2 + n
        e    == MdImageTailAt(t, p)
        hit  == StartsAt(t, <<"!", "[">>, i) /\ StartsAt(t, <<"]", "(">>, b)
                /\ n >= 1 /\ e # 0
    IN  IF hit THEN [end |-> e, alt |-> Sub(t, i + 2, b), path |-> Sub(t, b + 2, p)]
        ELSE [end |-> 0, alt |-> << >>, path |-> << >>]

\* One image reference found in the masked text: the literal match, the
\* image name or path handed to handleImage, and the alt text handed to it.
ImageRef(kind, match, ref, alt) ==
    [kind |-> kind, match |-> match, ref |-> ExpandAll(ref), alt |-> alt]

RECURSIVE WikiImagesFrom(_, _)
WikiImagesFrom(t, i) ==
    IF i > Len(t) THEN << >>
    ELSE LET e == MatchWikiImageAt(t, i)
             imageName == Trim(Sub(t, i + 3, e - 2))
         IN  IF e = 0 THEN WikiImagesFrom(t, i + 1)
             ELSE <<ImageRef("wiki", Sub(t, i, e), imageName, PathParseName(imageName))>>
                  \o WikiImagesFrom(t, e)

IsExternal(imagePath) ==
    \/ StartsWith(ExpandAll(imagePath), Expand(HTTP) \o <<"/", "/">>)
    \/ StartsWith(ExpandAll(imagePath), Expand(HTTPS))

RECURSIVE MdImagesFrom(_, _)
MdImagesFrom(t, i) ==
    IF i > Len(t) THEN << >>
    ELSE LET m == MatchMdImageAt(t, i)
         IN  IF m.end = 0 THEN MdImagesFrom(t, i + 1)
             ELSE IF IsExternal(Trim(m.path)) THEN MdImagesFrom(t, m.end)
             ELSE <<ImageRef("md", Sub(t, i, m.end), Trim(m.path), Trim(m.alt))>>
                  \o MdImagesFrom(t, m.end)

\* The image promises in the order they are pushed: wiki-style first.
ImageRefs(t) == WikiImagesFrom(t, 1) \o MdImagesFrom(t, 1)

(***************************************************************************)
(* handleImage: destination name and the replacement text.                 *)
(***************************************************************************)
safeImageBasename(ref) == sanitizeFilename(PathBasename(ref))

\* `![${finalAltText}](/images/${encodeURIComponent(safeImageBasename)})`
hugoImageMarkdown(ref, alt) ==
    LET safe == safeImageBasename(ref)
        finalAltText == IF alt # << >> THEN alt ELSE PathParseName(safe)
    IN  <<"!", "[">> \o finalAltText \o <<"]", "(", IMAGES>>
        \o encodeURIComponent(safe) \o <<")">>

\* A variant of the placeholder that drops the failed reference silently.
errorCommentEmpty(kind, ref) == << >>

\* The replacement the .catch handlers return for a failed image.
errorComment(kind, ref) ==
    <<IF kind = "wiki" THEN ERRW ELSE ERRM>> \o ref \o <<ENDC>>

(***************************************************************************)
(* Substitution of the image results (processContent, lines 291-303).      *)
(***************************************************************************)
\* The comparator (a, b) => lastIndexOf(b.match) - lastIndexOf(a.match) is
\* negative, so a sorts before b, when a's match lies further right.
SortsBefore(t, a, b) == LastIndexOf(t, a.match) > LastIndexOf(t, b.match)

\* Array.prototype.sort is stable: insertion keeps the order of equal keys.
RECURSIVE InsertResult(_, _, _)
InsertResult(t, sorted, x) ==
    IF sorted = << >> THEN <<x>>
    ELSE IF SortsBefore(t, x, Head(sorted)) THEN <<x>> \o sorted
         ELSE <<Head(sorted)>> \o InsertResult(t, Tail(sorted), x)

\* imageResults.sort(...) against the masked text t.
RECURSIVE SortResults(_, _)
SortResults(t, results) ==
    IF results = << >> THEN << >>
    ELSE InsertResult(t, SortResults(t, Sub(results, 1, Len(results))),
                      results[Len(results)])

\* One iteration of the replacement loop.
ApplyResult(t, r) ==
    LET index == LastIndexOf(t, r.match)
    IN  IF index # 0
        THEN Sub(t, 1, index) \o r.replacement \o Sub(t, index + Len(r.match), Len(t) + 1)
        ELSE t

RECURSIVE ApplyResults(_, _)
ApplyResults(t, results) ==
    IF results = << >> THEN t
    ELSE ApplyResults(ApplyResult(t, Head(results)), Tail(results))

SubstituteImages(t, results) == ApplyResults(t, SortResults(t, results))

(***************************************************************************)
(* Wikilinks (processContent, step 4).                                     *)
(***************************************************************************)
\* wikilinkRegex anchored at index i: [end |-> index just past the match
\* (0 when none), target, pipe |-> the two capture groups].
MatchWikilinkAt(t, i) ==
    LET n == RunLenNot(t, i + 2, {"|", "]", NL})
        p == i + 2 + n
        m == RunLenNot(t, p + 1, {"]", NL})
        q == p + 1 + m
        none == [end |-> 0, target |-> << >>, pipe |-> << >>]
    IN  IF ~StartsAt(t, <<"[", "[">>, i) \/ n = 0 THEN none
        ELSE IF StartsAt(t, <<"]", "]">>, p)
             THEN [end |-> p + 2, target |-> Sub(t, i + 2, p), pipe |-> << >>]
        ELSE IF StartsAt(t, <<"|">>, p) /\ m >= 1 /\ StartsAt(t, <<"]", "]">>, q)
             THEN [end |-> q + 2, target |-> Sub(t, i + 2, p), pipe |-> Sub(t, p, q)]
        ELSE none

\* /\.\w{2,5}$/.test(target)
HasExtension(target) ==
    LET x == ExpandAll(target)
    IN  \E k \in 2..5 :
            /\ Len(x) > k
            /\ x[Len(x) - k] = "."
            /\ \A j \in (Len(x) - k + 1)..Len(x) : IsWord(x[j])

\* A variant of the skip test without the extension test.
SkipWikilinkNoExtension(target) ==
    \/ StartsWith(ExpandAll(target), Expand(HTTP))
    \/ StartsWith(ExpandAll(target), Expand(HTTPS))
    \/ StartsWith(ExpandAll(target), <<"/">>)

SkipWikilink(target) ==
    \/ HasExtension(target)
    \/ StartsWith(ExpandAll(target), Expand(HTTP))
    \/ StartsWith(ExpandAll(target), Expand(HTTPS))
    \/ StartsWith(ExpandAll(target), <<"/">>)

\* The replacer callback of the wikilink pass.
WikilinkReplacement(linkTarget, linkTextWithPipe) ==
    LET target == Trim(linkTarget)
        text   == IF linkTextWithPipe # << >> THEN Trim(Tail(linkTextWithPipe))
                  ELSE target
    IN  IF SkipWikilink(target)
        THEN <<"[", "[">> \o linkTarget \o linkTextWithPipe \o <<"]", "]">>
        ELSE <<"[">> \o text \o <<"]", "(", POSTS>> \o slugify(target) \o <<"/", ")">>

RECURSIVE RewriteWikilinksFrom(_, _)
RewriteWikilinksFrom(t, i) ==
    IF i > Len(t) THEN << >>
    ELSE LET m == MatchWikilinkAt(t, i)
         IN  IF m.end = 0 THEN <<t[i]>> \o RewriteWikilinksFrom(t, i + 1)
             ELSE WikilinkReplacement(m.target, m.pipe) \o RewriteWikilinksFrom(t, m.end)

RewriteWikilinks(t) == RewriteWikilinksFrom(t, 1)

(***************************************************************************)
(* Restoring the code (processContent, steps 5 and 6).                     *)
(***************************************************************************)
\* t.replace(needle, () => by): the first occurrence only.
ReplaceFirst(t, needle, by) ==
    LET index == IndexOf(t, needle)
    IN  IF index = 0 THEN t
        ELSE Sub(t, 1, index) \o by \o Sub(t, index + Len(needle), Len(t) + 1)

\* for (let i = blocks.length - 1; i >= 0; i--) over i = n - 1.
RECURSIVE RestoreBlocks(_, _, _, _)
RestoreBlocks(t, kind, blocks, n) ==
    IF n = 0 THEN t
    ELSE RestoreBlocks(ReplaceFirst(t, Placeholder(kind, n - 1), blocks[n]),
                       kind, blocks, n - 1)

RestoreCode(t, inlineCodeBlocks, fencedCodeBlocks) ==
    RestoreBlocks(RestoreBlocks(t, INLINE, inlineCodeBlocks, Len(inlineCodeBlocks)),
                  FENCED, fencedCodeBlocks, Len(fencedCodeBlocks))

(***************************************************************************)
(* Settings and resolvePath.                                               *)
(***************************************************************************)
homedir == <<"/", "h">>
postsDirectory == <<"~", "/", "c">>
staticImagesDirectory == <<"~", "/", "s">>

\* path.resolve of an absolute path: normalised, no trailing separator.
PathResolve(p) == StripTrailingSlashes(PathJoin(<<p>>))

resolvePath(rawPath) ==
    IF StartsWith(rawPath, <<"~">>)
    THEN PathResolve(PathJoin(<<homedir, Tail(rawPath)>>))
    ELSE PathResolve(rawPath)

\* handleImage: path.join(destinationDir, safeImageBasename)
imageDestination(ref) ==
    PathJoin(<<resolvePath(staticImagesDirectory), safeImageBasename(ref)>>)

MD == <<"m", "d">>
DOTMD == <<".", "m", "d">>

\* writeHugoFile: sanitizeFilename(originalFile.basename) + '.md' under the
\* resolved posts directory.
safeFilename(file) == sanitizeFilename(NoteBasename(file)) \o DOTMD
postDestination(file) == PathJoin(<<resolvePath(postsDirectory), safeFilename(file)>>)

\* TFile.extension
FileExtension(file) ==
    LET b == PathBasename(file.path)
        d == LastIndexOf(b, <<".">>)
    IN  IF d <= 1 THEN << >> ELSE Sub(b, d + 1, Len(b) + 1)

(***************************************************************************)
(* Front matter (processMarkdown / generateFrontMatter).  Metadata values  *)
(* are tagged: a string, null, or a timestamp rendered by toISOString.     *)
(***************************************************************************)
Str(chars) == [type |-> "string", val |-> chars]
Null == [type |-> "null", val |-> << >>]
IsoDate(n) == [type |-> "isodate", val |-> Digits(n)]

\* JavaScript truthiness of a metadata value; a missing key reads undefined.
Truthy(data, key) ==
    /\ key \in DOMAIN data
    /\ data[key].type # "null"
    /\ ~(data[key].type = "string" /\ data[key].val = << >>)

\* A variant of the merge in which the generated fields are spread last.
generateFrontMatterDefaultsLast(file, existingData, now) ==
    LET title == IF Truthy(existingData, "title") THEN existingData["title"]
                 ELSE Str(PathParseName(NoteName(file)))
        date  == IF Truthy(existingData, "date") THEN existingData["date"]
                 ELSE IsoDate(now)
    IN  ("title" :> title) @@ ("date" :> date) @@ existingData

\* { title: title, date: date, ...existingData }
generateFrontMatter(file, existingData, now) ==
    LET title == IF Truthy(existingData, "title") THEN existingData["title"]
                 ELSE Str(PathParseName(NoteName(file)))
        date  == IF Truthy(existingData, "date") THEN existingData["date"]
                 ELSE IsoDate(now)
    IN  existingData @@ ("title" :> title) @@ ("date" :> date)

(***************************************************************************)
(* State.                                                                  *)
(***************************************************************************)
VARIABLES
    openFiles,      \* the files open in the workspace, in leaf order
    activeFile,     \* index of the active file in openFiles, 0 when none
    command,        \* the command the user runs
    vaultReadable,  \* absolute paths on which fs.access(p, R_OK) succeeds
    ioFails,        \* absolute paths on which a read, copy or write fails
    clock,          \* the wall clock read by new Date()
    postsDir,       \* markdown files written under the posts directory
    staticDir,      \* image files copied under the static images directory
    pc,             \* position of the running command
    files,          \* the argument of exportFiles / the target of exportFile
    index,          \* loop position of exportFiles
    successCount,   \* exportFiles' counter
    notices,        \* the Notice objects shown, in order
    frames,         \* one activation of exportFile per element of files
    calls           \* history: the positions exportFile was called with, in order

vars == <<openFiles, activeFile, command, vaultReadable, ioFails, clock,
          postsDir, staticDir, pc, files, index, successCount, notices, frames,
          calls>>

env == <<openFiles, activeFile, command, vaultReadable, ioFails>>

MaxClock == 1

EmptyData == [k \in {} |-> Null]

\* A file of the vault: its TFile path and its text, already split by
\* gray-matter into metadata and body.  spans is not read by the program: it
\* records the code spans the body was written with.
File(path, data, body, spans) ==
    [path |-> path, data |-> data, body |-> body, spans |-> spans]

\* getActiveFile() returning null.
NoFile == File(<< >>, EmptyData, << >>, << >>)

Error(msg, name, cause) == [msg |-> msg, name |-> name, cause |-> cause]
NoError == Error("", << >>, "")

Notice(kind, a, b, err) == [kind |-> kind, a |-> a, b |-> b, err |-> err]

\* An image promise: the reference, where it stands, and what it settled to.
Task(r) ==
    [kind |-> r.kind, match |-> r.match, ref |-> r.ref, alt |-> r.alt,
     st |-> "finding", src |-> << >>, ok |-> FALSE, replacement |-> << >>]

\* One activation of exportFile.  masked is history: the text the debug
\* line "Content after masking" reports.
Frame(file) ==
    [file |-> file, stage |-> "idle", frontMatter |-> EmptyData,
     processedContent |-> << >>, masked |-> << >>, fencedCodeBlocks |-> << >>,
     inlineCodeBlocks |-> << >>, tasks |-> << >>, error |-> NoError]

IsMarkdown(file) == FileExtension(file) = MD

\* getOpenMarkdownFiles()
getOpenMarkdownFiles(open) == Filter(IsMarkdown, open)

\* The vault adapter resolves a note to a file under the vault root.
NoteAbsolutePath(file) == PathJoin(<<vaultBasePath, file.path>>)

\* The synchronous prefix of exportFile: the two target checks.
exportFileEnter(file) ==
    IF file = NoFile
    THEN [Frame(file) EXCEPT !.stage = "threw",
                             !.error = Error("No file selected or active for export.", << >>, "")]
    ELSE IF FileExtension(file) # MD
    THEN [Frame(file) EXCEPT !.stage = "threw",
                             !.error = Error("Cannot export non-markdown file", NoteName(file), "")]
    ELSE [Frame(file) EXCEPT !.stage = "reading"]

\* A variant of the catch block that logs the error and returns.
exportFileSwallow(frame, cause) == [frame EXCEPT !.stage = "returned"]

\* catch (error) { throw new Error(`Export failed for ${name}: ${error.message}`) }
exportFileRethrow(frame, cause) ==
    [frame EXCEPT !.stage = "threw",
                  !.error = Error("Export failed for", NoteName(frame.file), cause)]

(***************************************************************************)
(* The commands.                                                           *)
(***************************************************************************)
\* 'Export Active Note to Hugo': this.exportFile().catch(handleError)
ExportActiveNote ==
    /\ pc = "idle"
    /\ command = "exportActive"
    /\ LET target == IF activeFile = 0 THEN NoFile ELSE openFiles[activeFile]
       IN  /\ files' = <<target>>
           /\ frames' = <<exportFileEnter(target)>>
    /\ pc' = "single"
    /\ calls' = Append(calls, 1)
    /\ UNCHANGED <<env, clock, postsDir, staticDir, index, successCount, notices>>

\* The .catch of the command callback, or the promise resolving.
ExportActiveSettled ==
    /\ pc = "single"
    /\ frames[1].stage \in {"returned", "threw"}
    /\ notices' = IF frames[1].stage = "threw"
                  THEN Append(notices, Notice("error", 0, 0, frames[1].error))
                  ELSE notices
    /\ pc' = "done"
    /\ UNCHANGED <<env, clock, postsDir, staticDir, files, index, successCount, frames,
                   calls>>

\* 'Export Open Notes to Hugo': exportFiles(files) up to its loop.
ExportOpenNotes ==
    /\ pc = "idle"
    /\ command = "exportOpen"
    /\ LET fs == getOpenMarkdownFiles(openFiles)
       IN  /\ files' = fs
           /\ frames' = [k \in 1..Len(fs) |-> Frame(fs[k])]
           /\ IF Len(fs) = 0
              THEN /\ notices' = Append(notices, Notice("error", 0, 0, NoError))
                   /\ pc' = "done"
              ELSE /\ notices' = Append(notices, Notice("start", 0, Len(fs), NoError))
                   /\ pc' = "loop"
    /\ index' = 0
    /\ successCount' = 0
    /\ UNCHANGED <<env, clock, postsDir, staticDir, calls>>

\* for (const [index, file] of files.entries()) { try { await this.exportFile(file)
ExportFilesCall ==
    /\ pc = "loop"
    /\ index < Len(files)
    /\ frames' = [frames EXCEPT ![index + 1] = exportFileEnter(files[index + 1])]
    /\ pc' = "await"
    /\ calls' = Append(calls, index + 1)
    /\ UNCHANGED <<env, clock, postsDir, staticDir, files, index, successCount, notices>>

\* A variant of the loop that does not await the export it started.
exportFileNotAwaited(frame) == TRUE

\* The await of one iteration is over when that exportFile has settled.
exportFileSettled(frame) == frame.stage \in {"returned", "threw"}

\* A variant of the loop whose catch block ends the batch.
ExportFilesResumeAborting ==
    /\ pc = "await"
    /\ exportFileSettled(frames[index + 1])
    /\ IF frames[index + 1].stage = "returned"
       THEN /\ successCount' = successCount + 1
            /\ notices' = notices
            /\ pc' = "loop"
       ELSE /\ successCount' = successCount
            /\ notices' = Append(notices,
                   Notice("error", index + 1, Len(files), frames[index + 1].error))
            /\ pc' = "done"
    /\ index' = index + 1
    /\ UNCHANGED <<env, clock, postsDir, staticDir, files, frames, calls>>

\* successCount++ or the catch block, then the next iteration.
ExportFilesResume ==
    /\ pc = "await"
    /\ exportFileSettled(frames[index + 1])
    /\ IF frames[index + 1].stage = "returned"
       THEN /\ successCount' = successCount + 1
            /\ notices' = notices
       ELSE /\ successCount' = successCount
            /\ notices' = Append(notices,
                   Notice("error", index + 1, Len(files), frames[index + 1].error))
    /\ index' = index + 1
    /\ pc' = "loop"
    /\ UNCHANGED <<env, clock, postsDir, staticDir, files, frames, calls>>

\* `Exported ${successCount}/${total} files.`
ExportFilesSummary ==
    /\ pc = "loop"
    /\ index = Len(files)
    /\ notices' = Append(notices, Notice("summary", successCount, Len(files), NoError))
    /\ pc' = "done"
    /\ UNCHANGED <<env, clock, postsDir, staticDir, files, index, successCount, frames,
                   calls>>

(***************************************************************************)
(* exportFile, one step per await or per stage of processContent.  k is    *)
(* the activation (the position of the note in files).                     *)
(***************************************************************************)
Running(k) == k \in 1..Len(frames)

FrameVars == <<env, pc, files, index, successCount, calls>>

\* const content = await this.app.vault.read(targetFile)
ReadNote(k) ==
    /\ Running(k)
    /\ frames[k].stage = "reading"
    /\ frames' = [frames EXCEPT ![k] =
           IF NoteAbsolutePath(frames[k].file) \in ioFails
           THEN exportFileRethrow(frames[k], "read failed")
           ELSE [frames[k] EXCEPT !.stage = "read"]]
    /\ UNCHANGED <<FrameVars, clock, postsDir, staticDir, notices>>

\* processMarkdown: matter(content), then generateFrontMatter.  The clock is
\* read only when the note has no truthy date, and time may have passed.
GenerateFrontMatter(k) ==
    /\ Running(k)
    /\ frames[k].stage = "read"
    /\ \E now \in clock..MaxClock :
          /\ clock' = IF Truthy(frames[k].file.data, "date") THEN clock ELSE now
          /\ frames' = [frames EXCEPT ![k] =
                 [frames[k] EXCEPT !.stage = "mask",
                           !.frontMatter = generateFrontMatter(frames[k].file, frames[k].file.data, clock'),
                           !.processedContent = frames[k].file.body]]
    /\ UNCHANGED <<FrameVars, postsDir, staticDir, notices>>

\* processContent, steps 1 and 2.
MaskCode(k) ==
    /\ Running(k)
    /\ frames[k].stage = "mask"
    /\ LET f == MaskFenced(frames[k].processedContent)
           i == MaskInline(f.text)
       IN  frames' = [frames EXCEPT ![k] =
               [frames[k] EXCEPT !.stage = "extract",
                         !.processedContent = i.text,
                         !.masked = i.text,
                         !.fencedCodeBlocks = f.blocks,
                         !.inlineCodeBlocks = i.blocks]]
    /\ UNCHANGED <<FrameVars, clock, postsDir, staticDir, notices>>

\* processContent, step 3: every handleImage call is made, and runs up to
\* its first await, before Promise.all is awaited.
LaunchImages(k) ==
    /\ Running(k)
    /\ frames[k].stage = "extract"
    /\ LET refs == ImageRefs(frames[k].processedContent)
       IN  frames' = [frames EXCEPT ![k] =
               [frames[k] EXCEPT !.stage = "images",
                         !.tasks = [j \in 1..Len(refs) |-> Task(refs[j])]]]
    /\ UNCHANGED <<FrameVars, clock, postsDir, staticDir, notices>>

\* A variant of the .catch handlers that leaves the reference as written.
TaskFailedUnmarked(t) ==
    [t EXCEPT !.st = "settled", !.ok = FALSE, !.replacement = t.match]

\* What a task settles to when handleImage throws: the .catch handlers.
TaskFailed(t) ==
    [t EXCEPT !.st = "settled", !.ok = FALSE,
              !.replacement = errorComment(t.kind, t.ref)]

\* What a task settles to when handleImage returns.
TaskSucceeded(t) ==
    [t EXCEPT !.st = "settled", !.ok = TRUE,
              !.replacement = hugoImageMarkdown(t.ref, t.alt)]

\* handleImage: await this.findImage(sourceNote, imageNameOrPath).  The
\* probes only read the vault, which no step of the export writes.
TaskFind(k, j) ==
    /\ Running(k)
    /\ frames[k].stage = "images"
    /\ j \in 1..Len(frames[k].tasks)
    /\ frames[k].tasks[j].st = "finding"
    /\ LET found == findImage(frames[k].file, frames[k].tasks[j].ref, vaultReadable)
       IN  frames' = [frames EXCEPT ![k].tasks[j] =
               IF found.ok THEN [@ EXCEPT !.st = "copying", !.src = found.path]
               ELSE TaskFailed(@)]
    /\ UNCHANGED <<FrameVars, clock, postsDir, staticDir, notices>>

\* A variant of the copy step that returns the link without copying.
TaskCopyLinkOnly(k, j) ==
    /\ Running(k)
    /\ frames[k].stage = "images"
    /\ j \in 1..Len(frames[k].tasks)
    /\ frames[k].tasks[j].st = "copying"
    /\ frames' = [frames EXCEPT ![k].tasks[j] =
           IF imageDestination(@.ref) \in ioFails THEN TaskFailed(@)
           ELSE TaskSucceeded(@)]
    /\ UNCHANGED <<FrameVars, clock, postsDir, staticDir, notices>>

\* handleImage: await this.copyImage(sourceImagePath, destinationPath)
TaskCopy(k, j) ==
    /\ Running(k)
    /\ frames[k].stage = "images"
    /\ j \in 1..Len(frames[k].tasks)
    /\ frames[k].tasks[j].st = "copying"
    /\ LET t    == frames[k].tasks[j]
           dest == imageDestination(t.ref)
       IN  IF dest \in ioFails
           THEN /\ frames' = [frames EXCEPT ![k].tasks[j] = TaskFailed(@)]
                /\ staticDir' = staticDir
           ELSE /\ frames' = [frames EXCEPT ![k].tasks[j] = TaskSucceeded(@)]
                /\ staticDir' = {e \in staticDir : e.path # dest}
                                  \cup {[path |-> dest, from |-> t.src]}
    /\ UNCHANGED <<FrameVars, clock, postsDir, notices>>

\* A variant of the wait that goes on when the first promise has settled.
FirstSettled(tasks) ==
    tasks = << >> \/ \E j \in 1..Len(tasks) : tasks[j].st = "settled"

\* await Promise.all(imagePromises): every promise has settled.
AllSettled(tasks) == \A j \in 1..Len(tasks) : tasks[j].st = "settled"

ImageResults(tasks) ==
    [j \in 1..Len(tasks) |-> [match |-> tasks[j].match,
                              replacement |-> tasks[j].replacement]]

\* The sort and the replacement loop that follow Promise.all.
SubstituteImagesStep(k) ==
    /\ Running(k)
    /\ frames[k].stage = "images"
    /\ AllSettled(frames[k].tasks)
    /\ frames' = [frames EXCEPT ![k] =
           [frames[k] EXCEPT !.stage = "links",
                     !.processedContent =
                         SubstituteImages(frames[k].processedContent, ImageResults(frames[k].tasks))]]
    /\ UNCHANGED <<FrameVars, clock, postsDir, staticDir, notices>>

\* processContent, step 4.
RewriteWikilinksStep(k) ==
    /\ Running(k)
    /\ frames[k].stage = "links"
    /\ frames' = [frames EXCEPT ![k] =
           [frames[k] EXCEPT !.stage = "restore",
                     !.processedContent = RewriteWikilinks(frames[k].processedContent)]]
    /\ UNCHANGED <<FrameVars, clock, postsDir, staticDir, notices>>

\* processContent, steps 5 and 6; processMarkdown then reassembles the
\* document and exportFile calls writeHugoFile.
RestoreCodeStep(k) ==
    /\ Running(k)
    /\ frames[k].stage = "restore"
    /\ frames' = [frames EXCEPT ![k] =
           [frames[k] EXCEPT !.stage = "write",
                     !.processedContent =
                         RestoreCode(frames[k].processedContent, frames[k].inlineCodeBlocks,
                                     frames[k].fencedCodeBlocks)]]
    /\ UNCHANGED <<FrameVars, clock, postsDir, staticDir, notices>>

\* matter.stringify(processedBody, finalFrontMatter)
Document(frame) == [data |-> frame.frontMatter, body |-> frame.processedContent]

\* The heuristic of writeHugoFile that tells a single export from a batch.
ShowsExportNotice(file) ==
    ~(  /\ (activeFile = 0 \/ openFiles[activeFile] # file)
        /\ Len(getOpenMarkdownFiles(openFiles)) > 1)

\* writeHugoFile: mkdir, writeFile, the notice; a failure is wrapped twice.
WriteHugoFile(k) ==
    /\ Running(k)
    /\ frames[k].stage = "write"
    /\ LET dest == postDestination(frames[k].file)
       IN  IF dest \in ioFails
           THEN /\ frames' = [frames EXCEPT ![k] =
                       exportFileRethrow(frames[k], "Failed to write Hugo file")]
                /\ postsDir' = postsDir
                /\ notices' = notices
           ELSE /\ frames' = [frames EXCEPT ![k].stage = "returned"]
                /\ postsDir' = {e \in postsDir : e.path # dest}
                                 \cup {[path |-> dest, doc |-> Document(frames[k])]}
                /\ notices' = IF ShowsExportNotice(frames[k].file)
                              THEN Append(notices, Notice("success", 0, 0, NoError))
                              ELSE notices
    /\ UNCHANGED <<FrameVars, clock, staticDir>>

Next ==
    \/ ExportActiveNote
    \/ ExportActiveSettled
    \/ ExportOpenNotes
    \/ ExportFilesCall
    \/ ExportFilesResume
    \/ ExportFilesSummary
    \/ \E k \in 1..Len(frames) : ReadNote(k)
    \/ \E k \in 1..Len(frames) : GenerateFrontMatter(k)
    \/ \E k \in 1..Len(frames) : MaskCode(k)
    \/ \E k \in 1..Len(frames) : LaunchImages(k)
    \/ \E k \in 1..Len(frames) : \E j \in 1..Len(frames[k].tasks) : TaskFind(k, j)
    \/ \E k \in 1..Len(frames) : \E j \in 1..Len(frames[k].tasks) : TaskCopy(k, j)
    \/ \E k \in 1..Len(frames) : SubstituteImagesStep(k)
    \/ \E k \in 1..Len(frames) : RewriteWikilinksStep(k)
    \/ \E k \in 1..Len(frames) : RestoreCodeStep(k)
    \/ \E k \in 1..Len(frames) : WriteHugoFile(k)

(***************************************************************************)
(* Inputs: note bodies are written as a few items, plain references or     *)
(* code spans; the vault holds i.png and c.png at its root, and copying    *)
(* c.png fails.                                                            *)
(***************************************************************************)
I_PNG == <<"i", ".", "p", "n", "g">>
J_PNG == <<"j", ".", "p", "n", "g">>
C_PNG == <<"c", ".", "p", "n", "g">>

WikiImg(name) == <<"!", "[", "[">> \o name \o <<"]", "]">>
MdImg(alt, path) == <<"!", "[">> \o alt \o <<"]", "(">> \o path \o <<")">>
Link(target) == <<"[", "[">> \o target \o <<"]", "]">>
LinkAs(target, display) == <<"[", "[">> \o target \o <<"|">> \o display \o <<"]", "]">>

RECURSIVE Repeat(_, _)
Repeat(c, n) == IF n = 0 THEN << >> ELSE <<c>> \o Repeat(c, n - 1)

InlineCode(inner) == <<BT>> \o inner \o <<BT>>
FencedCode(c, n, inner) == Repeat(c, n) \o <<NL>> \o inner \o <<NL>> \o Repeat(c, n)
\* A block whose closing fence is one character longer than its opening.
LongClosedCode(c, n, inner) == Repeat(c, n) \o <<NL>> \o inner \o <<NL>> \o Repeat(c, n + 1)

\* An item of a body: its text and the code spans it holds.
Plain(text) == [text |-> text, spans |-> << >>]
Span(code) == [text |-> code, spans |-> <<code>>]
\* A fenced block stands on lines of its own.
Block(code) == [text |-> <<NL>> \o code \o <<NL>>, spans |-> <<code>>]

EXT_URL == <<HTTPS, "e", "/", "x">>
MY_N == <<"M", "y", SP, "N">>
A_B == <<"a", ".", "b">>
HUGO_I_PNG == <<IMAGES>> \o I_PNG
PADDED_N == <<SP, "N", SP>>

PlainItems ==
    { Plain(WikiImg(I_PNG)), Plain(WikiImg(J_PNG)), Plain(MdImg(<<"q">>, C_PNG)),
      Plain(MdImg(<<"e">>, EXT_URL)), Plain(MdImg(<<"i">>, HUGO_I_PNG)),
      Plain(Link(MY_N)), Plain(LinkAs(<<"N">>, <<"S">>)), Plain(Link(I_PNG)),
      Plain(Link(<<"/", "p">>)), Plain(Link(EXT_URL)),
      Plain(Link(A_B)), Plain(LinkAs(I_PNG, <<"S">>)), Plain(Link(PADDED_N)),
      Plain(<<"x">>), Plain(<<NL>>), Plain(<<BT>>) }

\* A wikilink whose target is an inline code span: [[ + span + |D]].
LinkToCode(code) ==
    [text |-> <<"[", "[">> \o code \o <<"|", "D", "]", "]">>, spans |-> <<code>>]

CodeItems ==
    { Span(InlineCode(Link(<<"N">>))), Span(InlineCode(WikiImg(I_PNG))),
      LinkToCode(InlineCode(<<"x">>)),
      Span(InlineCode(Placeholder(INLINE, 0))),
      Block(FencedCode(TL, 3, Link(<<"N">>))),
      Block(FencedCode(BT, 3, Link(<<"N">>))),
      Block(FencedCode(BT, 4, WikiImg(I_PNG))),
      Block(LongClosedCode(TL, 3, <<"x">>)),
      Block(FencedCode(TL, 3, Placeholder(FENCED, 0))) }

Items == PlainItems \cup CodeItems

ItemSeqs(n) == UNION {[1..m -> Items] : m \in 0..n}

RECURSIVE CatTexts(_)
CatTexts(items) ==
    IF items = << >> THEN << >> ELSE Head(items).text \o CatTexts(Tail(items))

RECURSIVE CatSpans(_)
CatSpans(items) ==
    IF items = << >> THEN << >> ELSE Head(items).spans \o CatSpans(Tail(items))

N_MD == <<"p", "/", "N", ".", "m", "d">>

FullData == ("title" :> Str(<<"T">>)) @@ ("date" :> IsoDate(0))

NoteOf(path, data, items) == File(path, data, CatTexts(items), CatSpans(items))

\* The vault's images, and the destination the static directory refuses.
VaultImages == {PathJoin(<<vaultBasePath, I_PNG>>), PathJoin(<<vaultBasePath, C_PNG>>)}
CopyFailure == imageDestination(C_PNG)

InitState ==
    /\ clock = 0
    /\ postsDir = {}
    /\ staticDir = {}
    /\ pc = "idle"
    /\ files = << >>
    /\ index = 0
    /\ successCount = 0
    /\ notices = << >>
    /\ frames = << >>
    /\ calls = << >>

\* One note with any body of at most MaxFrags items, exported as the open
\* notes; the shortest bodies are also exported as the active note.
Init ==
    /\ \E items \in ItemSeqs(MaxFrags) :
          /\ openFiles = <<NoteOf(N_MD, FullData, items)>>
          /\ command \in IF Len(items) <= 1 THEN {"exportOpen", "exportActive"}
                         ELSE {"exportOpen"}
    /\ activeFile = 1
    /\ vaultReadable = VaultImages
    /\ ioFails = {CopyFailure}
    /\ InitState

Spec == Init /\ [][Next]_vars

(***************************************************************************)
(* Image resolution inputs: one note, in the vault root or in a folder,    *)
(* with one image reference, against every set of files the candidate      *)
(* directories may hold.                                                   *)
(***************************************************************************)
ROOT_MD == <<"N", ".", "m", "d">>
S_I_PNG == <<"s", "/">> \o I_PNG

CandidateDirs ==
    { << >>, <<"p">>, <<"N">>, <<"p", "/", "N">>, ATTACHMENTS, ASSETS, IMAGESDIR }

\* Every place of the vault a file named like the reference may sit in.
Places(rel) == {PathJoin(<<vaultBasePath, d, rel>>) : d \in CandidateDirs}

ResolveCases ==
    { [path |-> N_MD, ref |-> I_PNG, rel |-> I_PNG],
      [path |-> ROOT_MD, ref |-> I_PNG, rel |-> I_PNG],
      [path |-> N_MD, ref |-> <<"/">> \o S_I_PNG, rel |-> S_I_PNG],
      [path |-> N_MD, ref |-> S_I_PNG, rel |-> S_I_PNG],
      [path |-> ROOT_MD, ref |-> S_I_PNG, rel |-> S_I_PNG] }

InitResolve ==
    /\ \E c \in ResolveCases :
          /\ openFiles = <<NoteOf(c.path, FullData, <<Plain(WikiImg(c.ref))>>)>>
          /\ vaultReadable \in SUBSET Places(c.rel)
          /\ command \in IF vaultReadable = {} THEN {"exportOpen", "exportActive"}
                         ELSE {"exportOpen"}
    /\ activeFile = 1
    /\ ioFails = {}
    /\ InitState

SpecResolve == InitResolve /\ [][Next]_vars

(***************************************************************************)
(* Front matter inputs: one note whose metadata holds, or lacks, a title,  *)
(* a date and one more key.                                                *)
(***************************************************************************)
TitleValues == {Str(<<"T">>), Str(<< >>), Null}
DateValues == {IsoDate(0), Str(<<"s", "o", "o", "n">>), Str(<< >>), Null}
TagValues == {Str(<<"t">>)}

Records(key, values) == {EmptyData} \cup {key :> v : v \in values}

DataValues ==
    { t @@ d @@ g : t \in Records("title", TitleValues),
                    d \in Records("date", DateValues),
                    g \in Records("tags", TagValues) }

InitFrontMatter ==
    /\ \E data \in DataValues :
          openFiles = <<NoteOf(N_MD, data, <<Plain(WikiImg(I_PNG)), Plain(Link(MY_N))>>)>>
    /\ command \in {"exportOpen", "exportActive"}
    /\ activeFile = 1
    /\ vaultReadable = VaultImages
    /\ ioFails = {}
    /\ InitState

SpecFrontMatter == InitFrontMatter /\ [][Next]_vars

(***************************************************************************)
(* Batch inputs: up to MaxNotes open files among a plain note, a note with *)
(* an unresolvable image, a note with a resolvable one, an image file, a   *)
(* note that cannot be read and a note whose export cannot be written.     *)
(***************************************************************************)
NoteA == NoteOf(<<"p", "/", "A", ".", "m", "d">>, FullData, <<Plain(Link(MY_N))>>)
NoteB == NoteOf(<<"p", "/", "B", ".", "m", "d">>, FullData, <<Plain(WikiImg(J_PNG))>>)
NoteC == NoteOf(<<"p", "/", "C", ".", "m", "d">>, FullData, <<Plain(WikiImg(I_PNG))>>)
FileD == NoteOf(<<"p", "/", "D", ".", "p", "n", "g">>, EmptyData, << >>)
NoteE == NoteOf(<<"p", "/", "E", ".", "m", "d">>, FullData, <<Plain(<<"x">>)>>)
NoteF == NoteOf(<<"p", "/", "F", ".", "m", "d">>, FullData, <<Plain(WikiImg(I_PNG))>>)

BatchFiles == {NoteA, NoteB, NoteC, FileD, NoteE, NoteF}

BatchFailures == {NoteAbsolutePath(NoteE), postDestination(NoteF)}

InitBatch ==
    /\ openFiles \in UNION {[1..n -> BatchFiles] : n \in 0..MaxNotes}
    /\ command \in {"exportOpen", "exportActive"}
    /\ activeFile \in IF command = "exportActive" THEN 0..Len(openFiles)
                      ELSE {Min(1, Len(openFiles))}
    /\ vaultReadable = VaultImages
    /\ ioFails = BatchFailures
    /\ InitState

SpecBatch == InitBatch /\ [][Next]_vars

(***************************************************************************)
(* Properties.                                                             *)
(***************************************************************************)
\* processContent has returned for this activation.
Restored(fr) == fr.stage \in {"write", "returned"}

\* The image results have been substituted into the body.
Substituted(fr) == fr.stage \in {"links", "restore", "write", "returned"}

\* C1: code-block immunity.  Once processContent has returned, every fenced
\* code block and every inline code span the note body was written with
\* appears character for character in the processed body.
C1_CodeBlockImmunity ==
    \A k \in 1..Len(frames) :
        Restored(frames[k]) =>
            \A n \in 1..Len(frames[k].file.spans) :
                Includes(frames[k].processedContent, frames[k].file.spans[n])

\* The visible placeholder that names a failed image.
FailureComment(t) ==
    IF t.kind = "wiki"
    THEN <<"<!-- ERROR PROCESSING WIKI IMAGE: ">> \o t.ref \o <<" -->">>
    ELSE <<"<!-- ERROR PROCESSING MARKDOWN IMAGE: ">> \o t.ref \o <<" -->">>

MY_N_LINK ==
    <<"[", "M", "y", SP, "N", "]", "(", "/posts/", "m", "y", "-", "n", "/", ")">>

HasFailedImage(fr) == \E j \in 1..Len(fr.tasks) : fr.tasks[j].st = "settled" /\ ~fr.tasks[j].ok

\* C2: a failed image never aborts the note.  After substitution the body
\* holds the failure comment of every failed image and the Hugo link of every
\* other image; the activation does not throw; and a wikilink of the same
\* body is still rewritten.
C2_ImageFailureIsLocal ==
    \A k \in 1..Len(frames) :
        LET fr == frames[k]
        IN  /\ Substituted(fr) =>
                \A j \in 1..Len(fr.tasks) :
                    IF fr.tasks[j].ok
                    THEN Includes(fr.processedContent, hugoImageMarkdown(fr.tasks[j].ref, fr.tasks[j].alt))
                    ELSE Includes(fr.processedContent, FailureComment(fr.tasks[j]))
            /\ HasFailedImage(fr) => fr.stage # "threw"
            /\ (Restored(fr) /\ HasFailedImage(fr) /\ Includes(fr.masked, Link(MY_N)))
                   => Includes(fr.processedContent, MY_N_LINK)

\* C2 is exercised: a note was exported whose body held an image that was not
\* found, an image whose copy failed, or a failed image next to a successful
\* one or next to a wikilink.
C2_Witness ==
    \E k \in 1..Len(frames) :
        /\ frames[k].stage = "returned"
        /\ Len(frames[k].tasks) = 2
        /\ ~frames[k].tasks[1].ok
        /\ frames[k].tasks[2].ok

\* C3: the batch export never throws.  The notes are attempted once each, in
\* list order; every failure of a note is caught and reported, every success
\* counted; when the batch is over every note has been attempted, succeeded
\* plus failed is the number of notes, and the summary says so.
ErrorNotices == {n \in 1..Len(notices) : notices[n].kind = "error" /\ notices[n].a > 0}

C3_BatchNeverThrows ==
    command = "exportOpen" =>
        /\ calls = [i \in 1..Len(calls) |-> i]
        /\ Len(calls) <= Len(files)
        /\ successCount = Cardinality({k \in 1..index : frames[k].stage = "returned"})
        /\ Cardinality(ErrorNotices) = Cardinality({k \in 1..index : frames[k].stage = "threw"})
        /\ \A k \in 1..index :
               frames[k].stage = "threw" =>
                   \E n \in ErrorNotices :
                       notices[n] = Notice("error", k, Len(files), frames[k].error)
        /\ pc = "done" =>
               /\ Len(calls) = Len(files)
               /\ index = Len(files)
               /\ successCount + Cardinality(ErrorNotices) = Len(files)
               /\ Len(files) > 0 =>
                      notices[Len(notices)] = Notice("summary", successCount, Len(files), NoError)

\* C3 is exercised: a batch of three notes is over, with a note that
\* succeeded and a note that failed.
C3_Witness ==
    /\ command = "exportOpen"
    /\ pc = "done"
    /\ Len(files) = 3
    /\ successCount >= 1
    /\ Cardinality(ErrorNotices) >= 1

\* The candidates of the documented search order, for a note and a reference.
DocumentedOrder(note, ref) ==
    LET noteDir == PathDirname(note.path)
    IN  (IF Head(ref) = "/" THEN <<PathJoin(<<vaultBasePath, Tail(ref)>>)>> ELSE << >>)
        \o << PathJoin(<<vaultBasePath, noteDir, NoteBasename(note), ref>>),
              PathJoin(<<vaultBasePath, noteDir, ref>>),
              PathJoin(<<vaultBasePath, ref>>),
              PathJoin(<<vaultBasePath, ATTACHMENTS, ref>>),
              PathJoin(<<vaultBasePath, ASSETS, ref>>),
              PathJoin(<<vaultBasePath, IMAGESDIR, ref>>) >>
        \o (IF \E n \in 1..Len(ref) : ref[n] = "/"
            THEN << PathJoin(<<vaultBasePath, noteDir, ref>>),
                    PathJoin(<<vaultBasePath, ref>>) >>
            ELSE << >>)

\* C4: image resolution returns the first readable candidate of the
\* documented order, and fails when none is readable.
C4_FirstReadableCandidate ==
    \A k \in 1..Len(frames) :
        \A j \in 1..Len(frames[k].tasks) :
            LET t     == frames[k].tasks[j]
                order == DocumentedOrder(frames[k].file, t.ref)
                hits  == {n \in 1..Len(order) : order[n] \in vaultReadable}
            IN  t.st # "finding" =>
                    IF hits = {}
                    THEN t.st = "settled" /\ ~t.ok /\ t.src = << >>
                    ELSE \E n \in hits : /\ \A m \in hits : n <= m
                                         /\ t.src = order[n]

\* C4 is exercised: the image is readable in the folder named after the
\* note and in the vault root, and the folder's file was returned.
C4_Witness ==
    \E k \in 1..Len(frames) :
        /\ Len(frames[k].tasks) = 1
        /\ frames[k].file.path = N_MD
        /\ PathJoin(<<vaultBasePath, I_PNG>>) \in vaultReadable
        /\ frames[k].tasks[1].src = PathJoin(<<vaultBasePath, <<"p", "/", "N">>, I_PNG>>)
        /\ frames[k].tasks[1].ok

\* The wikilink rule as documented, case by case: a piece of a note body, and
\* what the export turns it into.
Kept(text) == [in |-> text, out |-> text]

LinkCases ==
    { [in |-> <<"[", "[", "M", "y", SP, "N", "]", "]">>, out |-> MY_N_LINK],
      [in |-> <<"[", "[", "N", "|", "S", "]", "]">>,
       out |-> <<"[", "S", "]", "(", "/posts/", "n", "/", ")">>],
      [in |-> <<"[", "[", "a", ".", "b", "]", "]">>,
       out |-> <<"[", "a", ".", "b", "]", "(", "/posts/", "a", "b", "/", ")">>],
      [in |-> <<"[", "[", SP, "N", SP, "]", "]">>,
       out |-> <<"[", "N", "]", "(", "/posts/", "n", "/", ")">>],
      Kept(<<"[", "[", "i", ".", "p", "n", "g", "]", "]">>),
      Kept(<<"[", "[", "i", ".", "p", "n", "g", "|", "S", "]", "]">>),
      Kept(<<"[", "[", "/", "p", "]", "]">>),
      Kept(<<"[", "[", "https://", "e", "/", "x", "]", "]">>),
      Kept(<<"x">>),
      Kept(<<NL>>) }

LinkCaseSeqs == UNION {[1..m -> LinkCases] : m \in 0..MaxFrags}

RECURSIVE CatIn(_)
CatIn(cases) == IF cases = << >> THEN << >> ELSE Head(cases).in \o CatIn(Tail(cases))

RECURSIVE CatOut(_)
CatOut(cases) == IF cases = << >> THEN << >> ELSE Head(cases).out \o CatOut(Tail(cases))

LinkTable == {[in |-> CatIn(c), out |-> CatOut(c)] : c \in LinkCaseSeqs}

LinkBodies == {e.in : e \in LinkTable}

\* C5: the wikilink rule.  A body made of the documented cases is exported
\* as the documented outputs, in order: targets with a 2-5 character
\* extension, a leading slash or an http(s) scheme stay as written, every
\* other [[T]] or [[T|D]] becomes a link to /posts/<slug of T>/.
C5_WikilinkRule ==
    \A k \in 1..Len(frames) :
        (Restored(frames[k]) /\ frames[k].file.body \in LinkBodies) =>
            \A e \in LinkTable :
                e.in = frames[k].file.body => frames[k].processedContent = e.out

\* C5 is exercised: a body with a rewritten wikilink and a skipped one was
\* exported.
C5_Witness ==
    \E k \in 1..Len(frames) :
        /\ frames[k].stage = "returned"
        /\ frames[k].file.body = <<"[", "[", "N", "|", "S", "]", "]",
                                   "[", "[", "i", ".", "p", "n", "g", "]", "]">>
        /\ frames[k].processedContent = <<"[", "S", "]", "(", "/posts/", "n", "/", ")",
                                          "[", "[", "i", ".", "p", "n", "g", "]", "]">>

\* The metadata of the processed document exists from this stage on.
HasFrontMatter(fr) ==
    fr.stage \in {"mask", "extract", "images", "links", "restore", "write", "returned"}

\* C6: the front matter merge.  Every key of the note's metadata is in the
\* output metadata with its value unchanged, title and date included; the
\* output adds only title and date, and only when the note lacks the key:
\* the file name without its extension, and the time of the export.
C6_FrontMatterMerge ==
    \A k \in 1..Len(frames) :
        LET fr   == frames[k]
            data == fr.file.data
        IN  HasFrontMatter(fr) =>
                /\ DOMAIN fr.frontMatter = DOMAIN data \cup {"title", "date"}
                /\ \A key \in DOMAIN data : fr.frontMatter[key] = data[key]
                /\ "title" \notin DOMAIN data => fr.frontMatter["title"] = Str(<<"N">>)
                /\ "date" \notin DOMAIN data =>
                       \E now \in 0..clock : fr.frontMatter["date"] = IsoDate(now)

\* C6 is exercised: a note with an empty title, one more key and no date got
\* its front matter.
C6_Witness ==
    \E k \in 1..Len(frames) :
        /\ frames[k].stage = "returned"
        /\ frames[k].file.data = ("title" :> Str(<< >>)) @@ ("tags" :> Str(<<"t">>))
        /\ frames[k].frontMatter["date"] = IsoDate(clock)

\* C7: whatever the note's metadata, the processed document has a title that
\* is a non-empty string and a date that is an ISO-8601 string.
C7_TitleAndDateAlwaysValid ==
    \A k \in 1..Len(frames) :
        HasFrontMatter(frames[k]) =>
            /\ frames[k].frontMatter["title"].type = "string"
            /\ frames[k].frontMatter["title"].val # << >>
            /\ frames[k].frontMatter["date"].type = "isodate"

\* The batch of three notes whose second has an image that is nowhere in the
\* vault, exported with nothing else going wrong.
Unharmed == {NoteA, NoteC}

PartialFailureBatch ==
    /\ command = "exportOpen"
    /\ pc = "done"
    /\ Len(files) = 3
    /\ files[1] \in Unharmed
    /\ files[2] = NoteB
    /\ files[3] \in Unharmed

PartialFailureOutputs ==
    /\ \E e \in postsDir : e.path = postDestination(files[1])
    /\ \E e \in postsDir : e.path = postDestination(files[3])
    /\ \E e \in postsDir :
           /\ e.path = postDestination(files[2])
           /\ e.doc.body = <<"<!-- ERROR PROCESSING WIKI IMAGE: ", "j", ".", "p", "n", "g", " -->">>

\* C8 as stated: the three outputs are written, the second with the error
\* comment in place of the image, and the summary reports 2 of 3 notes.
C8_SummaryTwoOfThree ==
    PartialFailureBatch =>
        /\ PartialFailureOutputs
        /\ notices[Len(notices)] = Notice("summary", 2, 3, NoError)

\* C8, amended: the three outputs are written, the second with the error
\* comment in place of the image, and the summary reports 3 of 3 notes: a
\* note with a failed image is a note that was exported.
C8_SummaryThreeOfThree ==
    PartialFailureBatch =>
        /\ PartialFailureOutputs
        /\ notices[Len(notices)] = Notice("summary", 3, 3, NoError)

\* C8 is exercised: that batch is over.
C8_Witness == PartialFailureBatch /\ successCount = 3

\* The stage failures of one export, read off the note and the file system.
NoTarget(file) == file = NoFile
NotMarkdown(file) == file # NoFile /\ FileExtension(file) # MD
Unreadable(file) == NoteAbsolutePath(file) \in ioFails
Unwritable(file) == postDestination(file) \in ioFails

FailsEarly(file) == NoTarget(file) \/ NotMarkdown(file) \/ Unreadable(file)

\* C9: a single export fails whenever a stage fails: it never returns for a
\* missing target, a file that is not markdown, an unreadable note or an
\* unwritable destination; the error names the note and the cause; and
\* after a failure before or during the read no markdown file of that note
\* is in the posts directory.
C9_ExportFileFails ==
    \A k \in 1..Len(frames) :
        LET fr == frames[k]
            f  == fr.file
        IN  /\ fr.stage = "returned" => ~(FailsEarly(f) \/ Unwritable(f))
            /\ fr.stage \in {"read", "mask", "extract", "images", "links", "restore", "write"}
                   => ~FailsEarly(f)
            /\ fr.stage = "threw" =>
                   /\ FailsEarly(f) \/ Unwritable(f)
                   /\ ~NoTarget(f) => fr.error.name = PathBasename(f.path)
                   /\ NoTarget(f) => fr.error.msg = "No file selected or active for export."
                   /\ NotMarkdown(f) => fr.error.msg = "Cannot export non-markdown file"
                   /\ (~NotMarkdown(f) /\ Unreadable(f)) =>
                          fr.error.msg = "Export failed for" /\ fr.error.cause = "read failed"
                   /\ (~FailsEarly(f) /\ Unwritable(f)) =>
                          /\ fr.error.msg = "Export failed for"
                          /\ fr.error.cause = "Failed to write Hugo file"
            /\ FailsEarly(f) => \A e \in postsDir : e.path # postDestination(f)

\* C9 is exercised: an export failed at the read and another at the write.
C9_Witness ==
    /\ \E k \in 1..Len(frames) :
           frames[k].stage = "threw" /\ frames[k].error.cause = "read failed"
    /\ \E k \in 1..Len(frames) :
           frames[k].stage = "threw" /\ frames[k].error.cause = "Failed to write Hugo file"

Started(fr) == fr.stage # "idle"
Finished(fr) == fr.stage \in {"returned", "threw"}

\* What one step of a batch export may do.
SequentialStep ==
    command = "exportOpen" =>
        /\ \A k \in 1..Len(frames) :
               frames'[k] # frames[k] =>
                   /\ \A j \in 1..(k - 1) : Finished(frames[j])
                   /\ \A j \in (k + 1)..Len(frames) : ~Started(frames[j])
        /\ (pc = "await" /\ frames[index + 1].stage = "threw") =>
               pc' = "loop" /\ index' = index + 1
        /\ (pc = "loop" /\ index < Len(files)) =>
               pc' = "await" /\ Started(frames'[index + 1])
        /\ pc' = "done" =>
               /\ index' = Len(files')
               /\ \A k \in 1..Len(frames') : Finished(frames'[k])

\* C10: the batch is sequential.  A step of a note (its read, an image
\* probe or copy, its write) is taken only when every earlier note of the
\* list has returned or failed and no later note has started; after a note
\* fails the loop goes on to the next note, starts it, and ends only when
\* every note of the list has returned or failed.
C10_SequentialBatch == [][SequentialStep]_vars

\* C10 is exercised: the first note of a batch failed and the third is
\* copying its image.
C10_Witness ==
    /\ command = "exportOpen"
    /\ Len(frames) = 3
    /\ frames[1].stage = "threw"
    /\ frames[3].stage = "images"

(***************************************************************************)
(* Repeated export inputs: the same note open in two leaves, so that one   *)
(* batch exports it twice; its body holds two images, its metadata has a   *)
(* date or lacks it.                                                       *)
(***************************************************************************)
TwiceBodies ==
    { <<Plain(WikiImg(I_PNG)), Plain(MdImg(<<"q">>, C_PNG))>>,
      <<Plain(WikiImg(I_PNG)), Plain(WikiImg(I_PNG))>>,
      <<Plain(WikiImg(J_PNG)), Plain(Link(MY_N))>> }

TwiceData == {FullData, "title" :> Str(<<"T">>), EmptyData}

InitTwice ==
    /\ \E items \in TwiceBodies, data \in TwiceData :
          openFiles = <<NoteOf(N_MD, data, items), NoteOf(N_MD, data, items)>>
    /\ command \in {"exportOpen", "exportActive"}
    /\ activeFile = 1
    /\ vaultReadable = VaultImages
    /\ ioFails = {CopyFailure}
    /\ InitState

SpecTwice == InitTwice /\ [][Next]_vars

\* C11: determinism.  Two exports of the same note, with the same settings
\* and the same vault, produce the same document, whatever the metadata of
\* the note and whatever the order in which the image tasks complete.
C11_SameNoteSameDocument ==
    \A j, k \in 1..Len(frames) :
        (/\ frames[j].file = frames[k].file
         /\ frames[j].stage = "returned"
         /\ frames[k].stage = "returned") =>
            /\ frames[j].frontMatter = frames[k].frontMatter
            /\ frames[j].processedContent = frames[k].processedContent

(***************************************************************************)
(* Destination inputs: one note, whose name may hold a space, with one     *)
(* image reference that has a folder, a name made of forbidden characters  *)
(* only, or the segment "..".  The vault's folders exist and are readable; *)
(* a copy onto the home directory fails, as a copy onto a directory does.  *)
(***************************************************************************)
S_QM == <<"s", "/", "?">>
A_B_MD == <<"p", "/", "a", SP, "b", ".", "m", "d">>

DestRefs == {I_PNG, S_I_PNG, S_QM, DOTDOT}

DestVault ==
    { PathJoin(<<vaultBasePath, I_PNG>>), PathJoin(<<vaultBasePath, S_I_PNG>>),
      PathJoin(<<vaultBasePath, S_QM>>),
      vaultBasePath, PathJoin(<<vaultBasePath, <<"p">> >>) }

InitDest ==
    /\ \E path \in {N_MD, A_B_MD}, ref \in DestRefs :
          openFiles = <<NoteOf(path, FullData, <<Plain(WikiImg(ref))>>)>>
    /\ command \in {"exportOpen", "exportActive"}
    /\ activeFile = 1
    /\ vaultReadable = DestVault
    /\ ioFails = {homedir}
    /\ InitState

SpecDest == InitDest /\ [][Next]_vars

\* A path that is dir/name for one non-empty name without a separator or
\* another forbidden character.
DirectChild(p, dir) ==
    /\ Len(p) > Len(dir) + 1
    /\ Sub(p, 1, Len(dir) + 2) = dir \o <<"/">>
    /\ \A n \in (Len(dir) + 2)..Len(p) :
           p[n] \notin {"<", ">", ":", "QUOTE", "/", "BACKSLASH", "|", "?", "*"}
    /\ Sub(p, Len(dir) + 2, Len(p) + 1) \notin {<<".">>, <<".", ".">>}

\* C12: every image copy targets a direct child of the resolved static
\* images directory, named by a non-empty name without forbidden
\* characters, whatever segments the reference holds; every note is written
\* to a direct child of the posts directory whose name ends in .md.
C12_DestinationsAreDirectChildren ==
    /\ \A k \in 1..Len(frames) :
           \A j \in 1..Len(frames[k].tasks) :
               frames[k].tasks[j].src # << >> =>
                   DirectChild(imageDestination(frames[k].tasks[j].ref), <<"/", "h", "/", "s">>)
    /\ \A e \in staticDir : DirectChild(e.path, <<"/", "h", "/", "s">>)
    /\ \A e \in postsDir :
           /\ DirectChild(e.path, <<"/", "h", "/", "c">>)
           /\ Sub(e.path, Len(e.path) - 2, Len(e.path) + 1) = <<".", "m", "d">>

\* What one step may do to the image tasks of a note.
ImageTasksStep ==
    \A k \in 1..Len(frames) :
        LET a == frames[k]
            b == frames'[k]
        IN  /\ (a.tasks = << >> /\ b.tasks # << >>) =>
                   \A j \in 1..Len(b.tasks) : b.tasks[j].st = "finding"
            /\ a.tasks # << >> => Len(b.tasks) = Len(a.tasks)
            /\ b.stage = "images" => b.processedContent = b.masked
            /\ (a.stage = "images" /\ (b.stage # "images" \/ b.processedContent # a.processedContent)) =>
                   \A j \in 1..Len(a.tasks) : a.tasks[j].st = "settled"
            /\ \A j \in 1..Len(b.tasks) :
                   b.tasks[j].st = "settled" =>
                       /\ b.tasks[j].match # << >>
                       /\ IF b.tasks[j].ok
                          THEN StartsWith(b.tasks[j].replacement, <<"!", "[">>)
                          ELSE StartsWith(b.tasks[j].replacement, <<"<!-- ERROR PROCESSING WIKI IMAGE: ">>)
                               \/ StartsWith(b.tasks[j].replacement, <<"<!-- ERROR PROCESSING MARKDOWN IMAGE: ">>)

\* C13: within one note the image tasks are all launched in one step,
\* before any of them has moved; each settles to a match and a replacement,
\* a link when it succeeded and an error comment when it failed; and the
\* body is not touched, nor the image stage left, before every task of the
\* note has settled, in whatever order the tasks run.
C13_AllImagesSettleFirst == [][ImageTasksStep]_vars

\* C13 is exercised: the second image task of a note has settled while the
\* first is still looking for its file.
C13_Witness ==
    \E k \in 1..Len(frames) :
        /\ frames[k].stage = "images"
        /\ Len(frames[k].tasks) = 2
        /\ frames[k].tasks[1].st = "finding"
        /\ frames[k].tasks[2].st = "settled"

\* The image references of the inputs, and what each is replaced by in a
\* vault that holds i.png and c.png, lacks j.png and /images/i.png, and
\* refuses the copy of c.png.
ImageCases ==
    { [in |-> <<"!", "[", "[", "i", ".", "p", "n", "g", "]", "]">>,
       out |-> <<"!", "[", "i", "]", "(", "/images/", "i", ".", "p", "n", "g", ")">>],
      [in |-> <<"!", "[", "[", "j", ".", "p", "n", "g", "]", "]">>,
       out |-> <<"<!-- ERROR PROCESSING WIKI IMAGE: ", "j", ".", "p", "n", "g", " -->">>],
      [in |-> <<"!", "[", "q", "]", "(", "c", ".", "p", "n", "g", ")">>,
       out |-> <<"<!-- ERROR PROCESSING MARKDOWN IMAGE: ", "c", ".", "p", "n", "g", " -->">>],
      [in |-> <<"!", "[", "i", "]", "(", "/images/", "i", ".", "p", "n", "g", ")">>,
       out |-> <<"<!-- ERROR PROCESSING MARKDOWN IMAGE: ",
                 "/", "i", "m", "a", "g", "e", "s", "/", "i", ".", "p", "n", "g", " -->">>],
      Kept(<<"!", "[", "e", "]", "(", "https://", "e", "/", "x", ")">>),
      Kept(<<"x">>),
      Kept(<<NL>>) }

ImageCaseSeqs == UNION {[1..m -> ImageCases] : m \in 0..MaxFrags}

ImageTable == {[in |-> CatIn(c), out |-> CatOut(c)] : c \in ImageCaseSeqs}

ImageBodies == {e.in : e \in ImageTable}

\* C14: position-stable substitution.  After the replacement loop every
\* local image reference of the masked body, each of several identical ones
\* included, stands replaced by the replacement of its own reference, and
\* the text around the references is unchanged.
C14_EveryReferenceReplacedInPlace ==
    \A k \in 1..Len(frames) :
        (Substituted(frames[k]) /\ frames[k].file.body \in ImageBodies) =>
            \A e \in ImageTable :
                e.in = frames[k].file.body => frames[k].processedContent = e.out

\* C15: every masked span is consumed by the unmasking.  After the restore
\* steps the body holds the text of every inline span and every fenced block
\* that the masking recorded, and, for a note that wrote no placeholder text
\* itself, no placeholder token, whatever the image and wikilink passes did
\* around or with the placeholders.
C15_MaskedSpansRestored ==
    \A k \in 1..Len(frames) :
        Restored(frames[k]) =>
            /\ \A n \in 1..Len(frames[k].inlineCodeBlocks) :
                   Includes(frames[k].processedContent, frames[k].inlineCodeBlocks[n])
            /\ \A n \in 1..Len(frames[k].fencedCodeBlocks) :
                   Includes(frames[k].processedContent, frames[k].fencedCodeBlocks[n])
            /\ ~Includes(frames[k].file.body, <<"%%HUGOPLUGIN_CODEBLOCK%%">>) =>
                   ~Includes(frames[k].processedContent, <<"%%HUGOPLUGIN_CODEBLOCK%%">>)

\* The masking passes have run.
Masked(fr) ==
    fr.stage \in {"extract", "images", "links", "restore", "write", "returned"}

\* A span that opens with three backticks or three tildes.
OpensFence(span) ==
    \/ StartsWith(span, <<"BACKTICK", "BACKTICK", "BACKTICK">>)
    \/ StartsWith(span, <<"~", "~", "~">>)

\* C16: the fenced pass masks every block that opens with three or more
\* backticks or tildes and closes with a fence of the same character at
\* least as long: the blocks it records are the fenced blocks of the body,
\* in order, and the masked text holds the placeholder of each ordinal.
C16_EveryFencedBlockMasked ==
    \A k \in 1..Len(frames) :
        Masked(frames[k]) =>
            /\ frames[k].fencedCodeBlocks = SelectSeq(frames[k].file.spans, OpensFence)
            /\ \A n \in 1..Len(frames[k].fencedCodeBlocks) :
                   Includes(frames[k].masked,
                            <<"%%HUGOPLUGIN_CODEBLOCK%%", "_FENCED_">> \o Digits(n - 1) \o <<"%", "%">>)

NoDuplicates(xs) ==
    \A i, j \in 1..Len(xs) : i < j => xs[i] # xs[j]

\* The candidate paths of the base-directory loop, in order.
BaseProbes(note, ref) ==
    [k \in 1..Len(uniqueSearchBases(note)) |->
        PathJoin(<<vaultBasePath, uniqueSearchBases(note)[k], ref>>)]

\* C17: for every note whose image is being resolved, in a folder or in
\* the vault root, the list of candidate base directories holds no
\* directory twice, and the base-directory loop probes no path twice.
C17_NoDuplicateSearchBase ==
    \A k \in 1..Len(frames) :
        \A j \in 1..Len(frames[k].tasks) :
            /\ NoDuplicates(uniqueSearchBases(frames[k].file))
            /\ NoDuplicates(BaseProbes(frames[k].file, frames[k].tasks[j].ref))

\* The task settled to a link into /images/.
GeneratedLink(t) ==
    t.st = "settled" /\ Includes(t.replacement, <<"]", "(", "/images/">>)

\* The file the link of the task names is in the static images directory.
LinkedFileCopied(t) ==
    \E e \in staticDir :
        /\ e.path = imageDestination(t.ref)
        /\ e.from \in vaultReadable
        /\ Includes(t.replacement,
                    <<"/images/">> \o encodeURIComponent(PathBasename(e.path)) \o <<")">>)

WriteFailed(fr) ==
    fr.stage = "threw" /\ fr.error.cause = "Failed to write Hugo file"

\* C18: copy before link.  Every /images/<name> link an image task has
\* produced names a file that a copy has already put in the static images
\* directory: the linked file is there while the note is processed, when its
\* markdown file is written, and still there after the write has failed.
C18_CopyBeforeLink ==
    \A k \in 1..Len(frames) :
        \A j \in 1..Len(frames[k].tasks) :
            GeneratedLink(frames[k].tasks[j]) => LinkedFileCopied(frames[k].tasks[j])

\* One note was written with a generated link, the write of another failed
\* after its image had been copied.
C18_Witness ==
    /\ \E k \in 1..Len(frames) :
           /\ frames[k].stage = "returned"
           /\ \E e \in postsDir : e.path = postDestination(frames[k].file)
           /\ \E j \in 1..Len(frames[k].tasks) :
                  /\ GeneratedLink(frames[k].tasks[j])
                  /\ Includes(frames[k].processedContent, frames[k].tasks[j].replacement)
    /\ \E k \in 1..Len(frames) :
           /\ WriteFailed(frames[k])
           /\ \E j \in 1..Len(frames[k].tasks) :
                  GeneratedLink(frames[k].tasks[j]) /\ LinkedFileCopied(frames[k].tasks[j])

====
